---- MODULE Spec2Model ----
(***************************************************************************)
(* A model of quant_factorizer's workflow engine: run_workflow and its     *)
(* three stage dispatchers (_calculate, _cross, _evaluate) in              *)
(* workflow/run.py, the registration wrappers of factor/indicators.py and  *)
(* factor/crosses.py, and the configuration classes of workflow/config.py. *)
(*                                                                         *)
(* A data frame is modelled by what the engine itself decides about it:    *)
(* its column names (strings, built as the code builds them) and its time  *)
(* index.  Cell values are the outputs of the registered formulas, which   *)
(* the engine never inspects.                                              *)
(***************************************************************************)
EXTENDS Integers, Sequences, FiniteSets, TLC

VARIABLES
    conf,            \* the WorkflowConf passed to run_workflow (read-only)
    cArg,            \* the concurrency argument as passed by the caller
    begin,           \* Optional[Arrow]: [given, t]
    end,             \* Optional[Arrow]: [given, t]
    source,          \* the table loader.load() returns
    concurrency,     \* run_workflow's local `concurrency` (after line 107-108)
    df,              \* run_workflow's local `df`
    pc,              \* the driver's position in run_workflow
    error,           \* the exception that left run_workflow ("none" if none)
    filterCount,     \* how many times lines 144-153 have run
    symIdx,          \* position of the `for symbol in ...unique()` loop
    stage,           \* the dispatcher that owns the open pool
    phase,           \* position inside the dispatcher
    futures,         \* the dispatcher's `futures` list (the pool's work items)
    dfs,             \* the dispatcher's `dfs` list
    exc,             \* exception travelling out of the `with` block
    r_df,            \* the symbol's indicator frame (result of _calculate)
    r_dfs,           \* run_workflow's `r_dfs`
    calculation_df,  \* run_workflow's `calculation_df`
    pools,           \* number of ThreadPoolExecutors created so far
    live,            \* number of ThreadPoolExecutors not yet shut down
    submitted,       \* the executor.submit() calls made so far, in order
    nStarted,        \* number of compute functions started so far
    overtaken,       \* a work item has ended before one submitted earlier
    registries,      \* the three registry dicts, by kind of unit
    registrations,   \* the decorator applications so far, in order
    resolved,        \* the last registry[name] lookup and its outcome
    writes,          \* the calls writer.write() has received
    yielded          \* the pairs run_workflow has produced to an iterating caller

vars == <<conf, cArg, begin, end, source, concurrency, df, pc, error,
          filterCount, symIdx, stage, phase, futures, dfs, exc, r_df, r_dfs,
          calculation_df, pools, live, submitted, nStarted, overtaken, writes,
          yielded, registries, registrations, resolved>>

-----------------------------------------------------------------------------
(* Bounds of the model.                                                    *)

MaxSteps == 2          \* longest list of indicator steps
MaxCrosses == 1        \* longest list of cross steps
MaxRows == 2           \* longest loaded table (time-filter specification)
MaxTick == 2           \* latest time stamp, in ticks
TicksPerSecond == 2    \* resolution of a time stamp below one second
MaxConcurrency == 2    \* largest concurrency argument
MaxEvaluators == 1     \* longest list of declared evaluator steps
MaxRegistrations == 3  \* most decorator applications (registry specification)
MaxPeriods == 2        \* longest periods list (periods specification)

-----------------------------------------------------------------------------
(* Generic helpers.                                                        *)

Max(a, b) == IF a >= b THEN a ELSE b
Min(a, b) == IF a <= b THEN a ELSE b

SeqsUpTo(S, n) == UNION { [1..k -> S] : k \in 0..n }

RECURSIVE Flatten(_)
Flatten(ss) == IF ss = <<>> THEN <<>> ELSE Head(ss) \o Flatten(Tail(ss))

RECURSIVE JoinStr(_, _)
JoinStr(sep, ss) ==
    IF ss = <<>> THEN ""
    ELSE IF Len(ss) = 1 THEN ss[1]
    ELSE ss[1] \o sep \o JoinStr(sep, Tail(ss))

(* Mutant of Unique: an element is listed once for every occurrence.       *)
UniqueKeepingRepeats(s) == s

(* The elements of s, each once, in order of first occurrence.             *)
RECURSIVE Unique(_)
Unique(s) ==
    IF s = <<>> THEN <<>>
    ELSE LET rest == Unique(SelectSeq(Tail(s), LAMBDA x : x # Head(s)))
         IN  <<Head(s)>> \o rest

None == [given |-> FALSE, v |-> <<>>]
Some(x) == [given |-> TRUE, v |-> x]

NoTime == [given |-> FALSE, t |-> 0]
At(t) == [given |-> TRUE, t |-> t]

-----------------------------------------------------------------------------
(* The registries (factor/indicators.py, factor/crosses.py).  Each module   *)
(* fills its dict at import time, through the decorators; run_workflow     *)
(* only reads them.  Two of the registered indicators and one of the       *)
(* registered crosses are modelled; every other name used below is         *)
(* unregistered.                                                           *)

technical_indicator_registry == {"SMA", "OBV"}
cross_registry == {"MUL"}
evaluator_registry == {"Describe", "PCC"}

Kinds == {"indicator", "cross", "evaluator"}

UnitNames ==
    technical_indicator_registry \cup cross_registry \cup evaluator_registry
        \cup {"NOPE"}

(* A dict over the unit names: Absent marks a key the dict does not have.  *)
Absent == "absent"
EmptyDict == [n \in UnitNames |-> Absent]

(* Mutant of SetItem: the first registration under a name is kept.         *)
SetItemIfAbsent(d, name, unit) ==
    IF d[name] = Absent THEN [d EXCEPT ![name] = unit] ELSE d

(* registry[name] = unit, in the decorators.                               *)
SetItem(d, name, unit) == [d EXCEPT ![name] = unit]

(* registry[name]: the unit, or KeyError.                                  *)
GetItem(d, name) == IF d[name] = Absent THEN "KeyError" ELSE d[name]

(* The registries once the three modules are imported: every decorated     *)
(* function is registered under its name.                                  *)
Imported ==
    [k \in Kinds |->
        [n \in UnitNames |->
            IF k = "indicator" /\ n \in technical_indicator_registry THEN n
            ELSE IF k = "cross" /\ n \in cross_registry THEN n
            ELSE IF k = "evaluator" /\ n \in evaluator_registry THEN n
            ELSE Absent]]

(* The names a dispatcher finds in its registry.                           *)
Registry(stg) ==
    { n \in UnitNames : GetItem(registries[stg], n) # "KeyError" }

(* The fields pydantic gives a FactorConf instance (workflow/config.py).   *)
FactorConfFields == {"indicators", "crosses"}

HasAttr(name) == name \in FactorConfFields

(* Python truthiness of Optional[list]: None and [] are falsy.             *)
Truthy(opt) == opt.given /\ opt.v # <<>>

-----------------------------------------------------------------------------
(* The registration wrappers and the registered formulas.                  *)

DefaultPeriods == <<2, 5>>

(* Mutant of EffectivePeriods: an empty list is replaced as well.          *)
EffectivePeriodsIfFalsy(periods) ==
    IF periods.given /\ periods.v # <<>> THEN periods.v ELSE DefaultPeriods

(* indicator.decorator.wrapper: kwargs.get('periods', None) is None, for   *)
(* a missing key as for the value None, gives [2, 5].                      *)
EffectivePeriods(periods) ==
    IF periods.given THEN periods.v ELSE DefaultPeriods

(* Mutant of EffectiveOrder: the two clamps are applied the other way      *)
(* round.                                                                  *)
EffectiveOrderMinFirst(order, cols) == Max(Min(order, Len(cols)), 2)

(* cross.decorator.wrapper: order = max(order, 2); order = min(order, k).  *)
EffectiveOrder(order, cols) == Min(Max(order, 2), Len(cols))

(* sma / obv: the columns of the returned frame.  sma assigns df[name]     *)
(* once per period: a repeated period overwrites its column.               *)
IndicatorColumns(name, periods) ==
    IF name = "SMA"
    THEN Unique([i \in 1..Len(periods) |-> "sma_" \o ToString(periods[i])])
    ELSE <<"obv">>

(* itertools.combinations(cols, r), in its order.                          *)
RECURSIVE Combinations(_, _)
Combinations(cols, r) ==
    IF r = 0 THEN << <<>> >>
    ELSE IF Len(cols) < r THEN <<>>
    ELSE LET withHead == Combinations(Tail(cols), r - 1)
         IN  [i \in 1..Len(withHead) |-> <<Head(cols)>> \o withHead[i]]
             \o Combinations(Tail(cols), r)

_get_perm_or_comb(cols, order) == Combinations(cols, order)

(* mul: one column per combination, named mul_<a>__<b>...                  *)
CrossColumns(cols, order) ==
    LET perm_or_comb == _get_perm_or_comb(cols, order)
    IN  [i \in 1..Len(perm_or_comb) |-> "mul_" \o JoinStr("__", perm_or_comb[i])]

-----------------------------------------------------------------------------
(* Frames.                                                                 *)

EmptyFrame == [cols |-> <<>>, index |-> <<>>]

(* df.index.get_level_values('symbol').unique()                            *)
SymbolsOf(d) == Unique([i \in 1..Len(d) |-> d[i].symbol])

(* df.loc[symbol]: the symbol's rows, indexed by time.                     *)
Loc(d, symbol) ==
    LET rows == SelectSeq(d, LAMBDA r : r.symbol = symbol)
    IN  [i \in 1..Len(rows) |-> rows[i].time]

(* The outer join of the frames' indexes: the common index when they are   *)
(* all equal, else every label that occurs, once.                          *)
JoinIndexes(frames) ==
    IF frames = <<>>
    THEN <<>>
    ELSE IF \A i \in 1..Len(frames) : frames[i].index = frames[1].index
    THEN frames[1].index
    ELSE Unique(Flatten([i \in 1..Len(frames) |-> frames[i].index]))

(* Mutant of ConcatRaises: pd.concat accepts an empty list.                 *)
ConcatAcceptsNothing(objs) == FALSE

(* pd.concat(objs) raises ValueError (no objects to concatenate) when the  *)
(* list is empty.                                                          *)
ConcatRaises(objs) == objs = <<>>

(* pd.concat(frames, axis=1): the columns side by side, in order, over the *)
(* joined index.                                                           *)
ConcatColumns(frames) ==
    [cols  |-> Flatten([i \in 1..Len(frames) |-> frames[i].cols]),
     index |-> JoinIndexes(frames)]

(* Arrow.format('YYYY-MM-DD HH:mm:ss') read back by pd.Timestamp: the      *)
(* time stamp without its part below one second.                           *)
FormatSeconds(t) == t - (t % TicksPerSecond)

(* run_workflow, lines 144-153.  An Arrow object is always truthy.         *)
FilterByTime(d, b, e) ==
    LET d1 == IF b.given
              THEN SelectSeq(d, LAMBDA r : r.time >= FormatSeconds(b.t))
              ELSE d
    IN  IF e.given
        THEN SelectSeq(d1, LAMBDA r : r.time < FormatSeconds(e.t))
        ELSE d1

(* run_workflow, lines 107-108.                                            *)
CoerceConcurrency(c) == IF c <= 0 THEN 1 ELSE c

-----------------------------------------------------------------------------
(* The dispatchers' work items and the worker pool.                        *)

(* The steps a dispatcher submits, in the order of its list comprehension: *)
(* _calculate one per indicator step; _cross one per cross step and order. *)
WorkItems(stg, c) ==
    IF stg = "indicator"
    THEN [i \in 1..Len(c.indicators) |->
            [name |-> c.indicators[i].name, order |-> 0,
             periods |-> c.indicators[i].periods]]
    ELSE Flatten([i \in 1..Len(c.crosses.v) |->
            [j \in 1..Len(c.crosses.v[i].orders) |->
                [name |-> c.crosses.v[i].name,
                 order |-> c.crosses.v[i].orders[j],
                 periods |-> None]]])

(* One executor.submit() call, as the caller makes it.                     *)
Submission(symbol, stg, item) ==
    [symbol |-> symbol, stage |-> stg, name |-> item.name, order |-> item.order]

(* executor.submit(func, frame, ...): a new work item for the symbol the   *)
(* loop is at, holding the frame it was submitted with, not started yet.   *)
NewFuture(item, symbol, input) ==
    [name |-> item.name, order |-> item.order, periods |-> item.periods,
     symbol |-> symbol, input |-> input,
     st |-> "pending", effOrder |-> 0, effPeriods |-> <<>>, out |-> EmptyFrame]

(* Mutant of Unfinished: shutdown drops the work items still in the queue. *)
UnfinishedIgnoringQueue(futs) == { i \in 1..Len(futs) : futs[i].st = "running" }

Unfinished(futs) == { i \in 1..Len(futs) : futs[i].st \in {"pending", "running"} }
Running(futs) == { i \in 1..Len(futs) : futs[i].st = "running" }
Pending(futs) == { i \in 1..Len(futs) : futs[i].st = "pending" }

(* Mutant of HasIdleWorker: one thread too many.                           *)
HasIdleWorkerOffByOne(futs, max_workers) ==
    Cardinality(Running(futs)) <= max_workers

(* ThreadPoolExecutor: at most max_workers threads, one work item each.    *)
HasIdleWorker(futs, max_workers) == Cardinality(Running(futs)) < max_workers

(* The work queue is first in, first out.                                  *)
NextInQueue(futs) == CHOOSE i \in Pending(futs) : \A j \in Pending(futs) : i <= j

(* Mutant of FutureAt: the futures are read last to first.                 *)
FutureAtReversed(futs, n) == futs[Len(futs) + 1 - n]

(* `for future in futures`: the n-th future whose result is read.          *)
FutureAt(futs, n) == futs[n]

(* Mutant of ResultRaises: a failed work item is passed over.               *)
ResultNeverRaises(f) == FALSE

(* future.result() re-raises the exception of a work item that raised.     *)
ResultRaises(f) == f.st = "raised"

(* Mutant of CurrentSymbol: the loop variable is not the one read.         *)
CurrentSymbolStale == SymbolsOf(df)[1]

(* The symbol the loop of run_workflow is at.                              *)
CurrentSymbol == SymbolsOf(df)[symIdx]

(* Mutant of StageInput: the columns of the results that are in have been *)
(* added to the frame.                                                     *)
StageInputWithResults ==
    LET base == IF stage = "indicator"
                THEN [cols |-> <<"open", "high", "low", "close", "volume">>,
                      index |-> Loc(df, CurrentSymbol)]
                ELSE r_df
        done == SelectSeq(futures, LAMBDA f : f.st = "done")
    IN  [base EXCEPT !.cols = @ \o Flatten([i \in 1..Len(done) |-> done[i].out.cols])]

(* The frame a stage's tasks receive: df.loc[symbol] for _calculate, the   *)
(* symbol's indicator frame for _cross.                                    *)
StageInput ==
    IF stage = "indicator"
    THEN [cols |-> <<"open", "high", "low", "close", "volume">>,
          index |-> Loc(df, CurrentSymbol)]
    ELSE r_df

(* A work item leaves the queue: the wrapper fixes the effective           *)
(* arguments before it calls the registered function.                      *)
Started(f, input) ==
    [f EXCEPT !.st = "running",
              !.effOrder = IF stage = "cross"
                           THEN EffectiveOrder(f.order, input.cols) ELSE 0,
              !.effPeriods = IF stage = "indicator"
                             THEN EffectivePeriods(f.periods) ELSE <<>>]

(* Mutant of Returned: the result keeps a positional index of its own.     *)
ReturnedNotReindexed(f, input) ==
    [f EXCEPT !.st = "done",
              !.out = [cols  |-> IF stage = "indicator"
                                 THEN IndicatorColumns(f.name, f.effPeriods)
                                 ELSE CrossColumns(input.cols, f.effOrder),
                       index |-> [i \in 1..Len(input.index) |-> i - 1]]]

(* The registered function returns; the wrapper re-indexes the result      *)
(* with a copy of the input's index.                                       *)
Returned(f, input) ==
    [f EXCEPT !.st = "done",
              !.out = [cols  |-> IF stage = "indicator"
                                 THEN IndicatorColumns(f.name, f.effPeriods)
                                 ELSE CrossColumns(input.cols, f.effOrder),
                       index |-> input.index]]

(* r_df['symbol'] = symbol; reset_index; set_index(['symbol', 'time'])     *)
SymbolBlock(symbol, frame) ==
    [symbol |-> symbol, cols |-> frame.cols, index |-> frame.index]

-----------------------------------------------------------------------------
(* Inputs.                                                                 *)

Symbols == {"A", "B"}

IndicatorSteps ==
    { [name |-> "SMA",  periods |-> None],
      [name |-> "SMA",  periods |-> Some(<<6>>)],
      [name |-> "OBV",  periods |-> None],
      [name |-> "NOPE", periods |-> None] }

CrossSteps ==
    { [name |-> "MUL",  orders |-> <<2>>],
      [name |-> "MUL",  orders |-> <<3, -1>>],
      [name |-> "NOPE", orders |-> <<2>>] }

EvaluatorSteps == { [name |-> "Describe"] }

(* The factor section of a configuration: indicators, crosses (Optional,   *)
(* default None), and the evaluator steps the configuration declares.      *)
Confs ==
    { [indicators |-> i, crosses |-> c, evaluators |-> <<>>] :
        i \in SeqsUpTo(IndicatorSteps, MaxSteps),
        c \in {None} \cup { Some(x) : x \in SeqsUpTo(CrossSteps, MaxCrosses) } }

Concurrencies == (0 - 1)..MaxConcurrency

(* One row a second for each listed symbol.                                *)
TableOf(syms) ==
    [i \in 1..Len(syms) |-> [symbol |-> syms[i], time |-> i * TicksPerSecond]]

PipelineTables == { TableOf(<<>>), TableOf(<<"A">>), TableOf(<<"A", "B", "A">>) }

Rows == [symbol : Symbols, time : 0..MaxTick]

OptionalTimes == {NoTime} \cup { At(t) : t \in 0..MaxTick }

(* A configuration in the shape of the tests' workflow.toml: indicator    *)
(* steps crossed by MUL with its default order.                            *)
DemoConf ==
    [indicators |-> << [name |-> "SMA", periods |-> None],
                       [name |-> "OBV", periods |-> None] >>,
     crosses |-> Some(<< [name |-> "MUL", orders |-> <<2>>] >>),
     evaluators |-> <<>>]

(* The same configuration, with and without declared evaluator steps.      *)
DemoConfs ==
    { [DemoConf EXCEPT !.evaluators = e] :
        e \in SeqsUpTo(EvaluatorSteps, MaxEvaluators) }

(* The state on entry to run_workflow.                                     *)
Entry ==
    /\ concurrency = cArg
    /\ df = <<>>
    /\ pc = "Loading"
    /\ error = "none"
    /\ filterCount = 0
    /\ symIdx = 0
    /\ stage = "none"
    /\ phase = "none"
    /\ futures = <<>>
    /\ dfs = <<>>
    /\ exc = "none"
    /\ r_df = EmptyFrame
    /\ r_dfs = <<>>
    /\ calculation_df = <<>>
    /\ pools = 0
    /\ live = 0
    /\ submitted = <<>>
    /\ nStarted = 0
    /\ overtaken = FALSE
    /\ writes = <<>>
    /\ yielded = <<>>

NoLookup == [kind |-> "none", name |-> "none", at |-> 0, result |-> "none"]

(* The registries as run_workflow finds them.                              *)
AfterImport ==
    /\ registries = Imported
    /\ registrations = <<>>
    /\ resolved = NoLookup

Init ==
    /\ conf \in Confs
    /\ cArg \in Concurrencies
    /\ begin = NoTime
    /\ end = NoTime
    /\ source \in PipelineTables
    /\ Entry
    /\ AfterImport

InitFilter ==
    /\ conf \in DemoConfs
    /\ cArg = 1
    /\ begin \in OptionalTimes
    /\ end \in OptionalTimes
    /\ source \in SeqsUpTo(Rows, MaxRows)
    /\ Entry
    /\ AfterImport

PeriodValues == {2, 5, 6}

(* One indicator step, its periods argument missing or any short list,     *)
(* over one row of one symbol.                                             *)
InitPeriods ==
    /\ conf \in { [indicators |-> << [name |-> n, periods |-> p] >>,
                    crosses |-> None, evaluators |-> <<>>] :
                      n \in technical_indicator_registry,
                      p \in {None} \cup
                            { Some(x) : x \in SeqsUpTo(PeriodValues, MaxPeriods) } }
    /\ cArg = 1
    /\ begin = NoTime
    /\ end = NoTime
    /\ source = TableOf(<<"A">>)
    /\ Entry
    /\ AfterImport

(* Three indicator steps, the last of them registered or not, over one     *)
(* row of one symbol.                                                      *)
InitThreeSteps ==
    /\ conf \in { [indicators |-> << [name |-> "SMA", periods |-> None],
                                     [name |-> "OBV", periods |-> None],
                                     [name |-> n, periods |-> Some(<<6>>)] >>,
                    crosses |-> c, evaluators |-> <<>>] :
                      n \in {"SMA", "NOPE"},
                      c \in {None, DemoConf.crosses} }
    /\ cArg \in 1..MaxConcurrency
    /\ begin = NoTime
    /\ end = NoTime
    /\ source = TableOf(<<"A">>)
    /\ Entry
    /\ AfterImport

(* The functions a decorator is applied to, and the names it is given.     *)
Funcs == {"f", "g"}
RegisteredNames == {"SMA", "MUL"}

(* The registry modules before any decorator has run: three empty dicts.   *)
InitRegistry ==
    /\ conf = DemoConf
    /\ cArg = 1
    /\ begin = NoTime
    /\ end = NoTime
    /\ source = <<>>
    /\ Entry
    /\ registries = [k \in Kinds |-> EmptyDict]
    /\ registrations = <<>>
    /\ resolved = NoLookup

-----------------------------------------------------------------------------
(* run_workflow.                                                           *)

args == <<conf, cArg, begin, end, source>>
regVars == <<registries, registrations, resolved>>
runVars == <<concurrency, df, pc, error, filterCount, symIdx, stage, phase,
             futures, dfs, exc, r_df, r_dfs, calculation_df, pools, live,
             submitted, nStarted, overtaken, writes, yielded>>
poolVars == <<stage, phase, futures, dfs, exc>>

(* What an exception that leaves run_workflow tells the caller about      *)
(* where it arose.  run_workflow and the dispatchers have no try/except:   *)
(* whatever the loader, pandas, a registry lookup or a unit raised leaves  *)
(* as it was raised.  A LoadDataError names the load by its class; no      *)
(* other exception carries a stage, a symbol or a step, and none wraps     *)
(* another.                                                                *)
ErrorContext(e) ==
    [stage  |-> IF e = "LoadDataError" THEN "load" ELSE "unknown",
     symbol |-> "unknown",
     step   |-> "unknown",
     cause  |-> "none"]

(* An exception leaves run_workflow.                                       *)
Raise(e) == pc' = "Failed" /\ error' = e

(* Mutant of OpenPool: the pool before this one has not been shut down.    *)
OpenPoolBesideTheLast(stg, alive) ==
    IF concurrency <= 0
    THEN /\ Raise("ValueError")
         /\ live' = alive
         /\ UNCHANGED <<poolVars, pools>>
    ELSE /\ stage' = stg
         /\ phase' = "submit"
         /\ futures' = <<>>
         /\ dfs' = <<>>
         /\ exc' = "none"
         /\ pools' = pools + 1
         /\ live' = live + 1
         /\ UNCHANGED <<pc, error>>

(* with ThreadPoolExecutor(max_workers=concurrency) as executor, entered   *)
(* while `alive` earlier pools exist: the constructor rejects              *)
(* max_workers <= 0.                                                       *)
OpenPool(stg, alive) ==
    IF concurrency <= 0
    THEN /\ Raise("ValueError")
         /\ live' = alive
         /\ UNCHANGED <<poolVars, pools>>
    ELSE /\ stage' = stg
         /\ phase' = "submit"
         /\ futures' = <<>>
         /\ dfs' = <<>>
         /\ exc' = "none"
         /\ pools' = pools + 1
         /\ live' = alive + 1
         /\ UNCHANGED <<pc, error>>

(* Mutant of Load: the loaded table goes to the loop unfiltered.           *)
LoadSkippingFilter ==
    /\ pc = "Loading"
    /\ concurrency' = CoerceConcurrency(cArg)
    /\ df' = source
    /\ pc' = "Calculating"
    /\ symIdx' = 1
    /\ phase' = "loop"
    /\ UNCHANGED <<args, regVars, error, filterCount, stage, futures, dfs, exc, r_df,
                   r_dfs, calculation_df, pools, live, submitted, nStarted,
                   overtaken, writes, yielded>>

(* Lines 105-136: coerce the concurrency, load, index by (symbol, time).   *)
Load ==
    /\ pc = "Loading"
    /\ concurrency' = CoerceConcurrency(cArg)
    /\ \/ /\ df' = source
          /\ pc' = "Filtering"
          /\ UNCHANGED error
       \/ /\ Raise("LoadDataError")
          /\ UNCHANGED df
    /\ UNCHANGED <<args, regVars, filterCount, symIdx, poolVars, r_df, r_dfs,
                   calculation_df, pools, live, submitted, nStarted, overtaken,
                   writes, yielded>>

(* Lines 138-183: filter by time, enter the loop over the symbols.         *)
Filter ==
    /\ pc = "Filtering"
    /\ df' = FilterByTime(df, begin, end)
    /\ filterCount' = filterCount + 1
    /\ pc' = "Calculating"
    /\ symIdx' = 1
    /\ phase' = "loop"
    /\ UNCHANGED <<args, regVars, concurrency, error, stage, futures, dfs, exc, r_df,
                   r_dfs, calculation_df, pools, live, submitted, nStarted,
                   overtaken, writes, yielded>>

(* Lines 184-187 and 197: the head of the loop.  The next symbol enters    *)
(* _calculate; after the last one the symbols' frames are concatenated     *)
(* (pd.concat raises ValueError on an empty list).                         *)
NextSymbol ==
    /\ pc = "Calculating"
    /\ phase = "loop"
    /\ IF symIdx <= Len(SymbolsOf(df))
       THEN /\ OpenPool("indicator", live)
            /\ UNCHANGED calculation_df
       ELSE /\ IF ConcatRaises(r_dfs)
               THEN Raise("ValueError") /\ UNCHANGED calculation_df
               ELSE /\ calculation_df' = r_dfs
                    /\ pc' = "Evaluating"
                    /\ UNCHANGED error
            /\ UNCHANGED <<poolVars, pools, live>>
    /\ UNCHANGED <<args, regVars, concurrency, df, filterCount, symIdx, r_df, r_dfs,
                   submitted, nStarted, overtaken, writes, yielded>>

(* One turn of the list comprehension that builds `futures`: look the      *)
(* step's name up in the registry (KeyError if absent) and submit it.      *)
Submit ==
    /\ pc = "Calculating"
    /\ phase = "submit"
    /\ LET items == WorkItems(stage, conf)
           n == Len(futures) + 1
       IN  IF n > Len(items)
           THEN /\ phase' = "collect"
                /\ UNCHANGED <<futures, submitted, exc>>
           ELSE IF items[n].name \notin Registry(stage)
           THEN /\ exc' = "KeyError"
                /\ phase' = "shutdown"
                /\ UNCHANGED <<futures, submitted>>
           ELSE /\ futures' = Append(futures,
                                   NewFuture(items[n], CurrentSymbol, StageInput))
                /\ submitted' = Append(submitted,
                        Submission(CurrentSymbol, stage, items[n]))
                /\ UNCHANGED <<phase, exc>>
    /\ UNCHANGED <<args, regVars, concurrency, df, pc, error, filterCount, symIdx,
                   stage, dfs, r_df, r_dfs, calculation_df, pools, live,
                   nStarted, overtaken, writes, yielded>>

(* A worker thread takes the next work item off the queue.                 *)
TaskStart ==
    /\ pc = "Calculating"
    /\ phase \in {"submit", "collect", "shutdown"}
    /\ Pending(futures) # {}
    /\ HasIdleWorker(futures, concurrency)
    /\ LET i == NextInQueue(futures)
       IN  futures' = [futures EXCEPT ![i] = Started(futures[i], futures[i].input)]
    /\ nStarted' = nStarted + 1
    /\ UNCHANGED <<args, regVars, concurrency, df, pc, error, filterCount, symIdx,
                   stage, phase, dfs, exc, r_df, r_dfs, calculation_df, pools,
                   live, submitted, overtaken, writes, yielded>>

(* A running work item ends: its function returns, or raises.              *)
TaskEnd ==
    /\ pc = "Calculating"
    /\ \E i \in Running(futures) :
          /\ \/ futures' = [futures EXCEPT
                                 ![i] = Returned(futures[i], futures[i].input)]
             \/ futures' = [futures EXCEPT ![i].st = "raised"]
          /\ overtaken' = (overtaken \/ \E j \in Unfinished(futures) : j < i)
    /\ UNCHANGED <<args, regVars, concurrency, df, pc, error, filterCount, symIdx,
                   stage, phase, dfs, exc, r_df, r_dfs, calculation_df, pools,
                   live, submitted, nStarted, writes, yielded>>

(* One turn of `for future in futures: dfs.append(future.result())`:       *)
(* result() blocks until the future is done and re-raises its exception.   *)
Collect ==
    /\ pc = "Calculating"
    /\ phase = "collect"
    /\ LET n == Len(dfs) + 1
       IN  IF n > Len(futures)
           THEN /\ phase' = "shutdown"
                /\ UNCHANGED <<dfs, exc>>
           ELSE /\ FutureAt(futures, n).st \in {"done", "raised"}
                /\ IF ~ResultRaises(FutureAt(futures, n))
                   THEN /\ dfs' = Append(dfs, FutureAt(futures, n).out)
                        /\ UNCHANGED <<phase, exc>>
                   ELSE /\ exc' = "ComputeError"
                        /\ phase' = "shutdown"
                        /\ UNCHANGED dfs
    /\ UNCHANGED <<args, regVars, concurrency, df, pc, error, filterCount, symIdx,
                   stage, futures, r_df, r_dfs, calculation_df, pools, live,
                   submitted, nStarted, overtaken, writes, yielded>>

(* The symbol's frame is complete (lines 191-196).                         *)
FinishSymbol(frame) ==
    /\ r_dfs' = Append(r_dfs, SymbolBlock(CurrentSymbol, frame))
    /\ symIdx' = symIdx + 1
    /\ stage' = "none"
    /\ phase' = "loop"
    /\ futures' = <<>>
    /\ dfs' = <<>>
    /\ r_df' = EmptyFrame
    /\ live' = live - 1
    /\ UNCHANGED <<pc, error, exc, pools>>

(* The `with` block is left: shutdown(wait=True) returns once every        *)
(* submitted work item has ended.  Then the exception goes on to the       *)
(* caller, or the dispatcher returns pd.concat(dfs, axis=1) (ValueError    *)
(* on an empty list) and run_workflow goes on to line 188 or 191.          *)
Shutdown ==
    /\ pc = "Calculating"
    /\ phase = "shutdown"
    /\ Unfinished(futures) = {}
    /\ IF exc # "none"
       THEN /\ Raise(exc)
            /\ live' = live - 1
            /\ UNCHANGED <<poolVars, symIdx, r_df, r_dfs, pools>>
       ELSE IF ConcatRaises(dfs)
       THEN /\ Raise("ValueError")
            /\ live' = live - 1
            /\ UNCHANGED <<poolVars, symIdx, r_df, r_dfs, pools>>
       ELSE IF stage = "indicator"
       THEN IF Truthy(conf.crosses)
            THEN /\ r_df' = ConcatColumns(dfs)
                 /\ OpenPool("cross", live - 1)
                 /\ UNCHANGED <<symIdx, r_dfs>>
            ELSE FinishSymbol(ConcatColumns(dfs))
       ELSE FinishSymbol(ConcatColumns(<<r_df, ConcatColumns(dfs)>>))
    /\ UNCHANGED <<args, regVars, concurrency, df, filterCount, calculation_df,
                   submitted, nStarted, overtaken, writes, yielded>>

(* Lines 211-264: conf.factor.evaluators is read.  FactorConf declares no  *)
(* such field, so the read raises AttributeError; were the field there     *)
(* and empty, the evaluation table would be an empty frame and the two     *)
(* tables would go to the writer.                                          *)
Evaluate ==
    /\ pc = "Evaluating"
    /\ IF ~HasAttr("evaluators")
       THEN /\ Raise("AttributeError")
            /\ UNCHANGED writes
       ELSE /\ writes' = Append(writes, [calculation_df |-> calculation_df,
                                          evaluation_df |-> <<>>])
            /\ pc' = "Done"
            /\ UNCHANGED error
    /\ UNCHANGED <<args, regVars, concurrency, df, filterCount, symIdx, poolVars, r_df,
                   r_dfs, calculation_df, pools, live, submitted, nStarted,
                   overtaken, yielded>>

Next ==
    \/ Load
    \/ Filter
    \/ NextSymbol
    \/ Submit
    \/ TaskStart
    \/ TaskEnd
    \/ Collect
    \/ Shutdown
    \/ Evaluate

Spec == Init /\ [][Next]_vars

(* @indicator / @cross / @evaluator applied to a function: the decorator   *)
(* stores the unit under its name.                                         *)
Register(kind, name, func) ==
    /\ Len(registrations) < MaxRegistrations
    /\ registries' = [registries EXCEPT ![kind] = SetItem(@, name, func)]
    /\ registrations' = Append(registrations,
                               [kind |-> kind, name |-> name, func |-> func])
    /\ UNCHANGED <<args, runVars, resolved>>

(* registry[name], as the dispatchers look a step's unit up.               *)
Resolve(kind, name) ==
    /\ resolved' = [kind |-> kind, name |-> name, at |-> Len(registrations),
                    result |-> GetItem(registries[kind], name)]
    /\ UNCHANGED <<args, runVars, registries, registrations>>

NextRegistry ==
    \/ \E kind \in Kinds, name \in RegisteredNames, func \in Funcs :
          Register(kind, name, func)
    \/ \E kind \in Kinds, name \in RegisteredNames \cup {"NOPE"} :
          Resolve(kind, name)

SpecRegistry == InitRegistry /\ [][NextRegistry]_vars

SpecFilter == InitFilter /\ [][Next]_vars

SpecPeriods == InitPeriods /\ [][Next]_vars

(* The demo configuration, or the same with no indicator steps declared    *)
(* (FactorConf's default), with and without crosses, over any short table  *)
(* and any time range.                                                     *)
InitNothing ==
    /\ conf \in { [indicators |-> i, crosses |-> c, evaluators |-> <<>>] :
                      i \in {<<>>, DemoConf.indicators},
                      c \in {None, DemoConf.crosses} }
    /\ cArg = 1
    /\ begin \in OptionalTimes
    /\ end \in OptionalTimes
    /\ source \in SeqsUpTo(Rows, MaxRows)
    /\ Entry
    /\ AfterImport

SpecNothing == InitNothing /\ [][Next]_vars

SpecThreeSteps == InitThreeSteps /\ [][Next]_vars

-----------------------------------------------------------------------------
(* Properties.                                                             *)

(* Some declared step names a unit that is not in its registry.            *)
UnknownStepDeclared(c) ==
    \/ \E i \in 1..Len(c.indicators) :
          c.indicators[i].name \notin technical_indicator_registry
    \/ /\ c.crosses.given
       /\ \E i \in 1..Len(c.crosses.v) :
             c.crosses.v[i].name \notin cross_registry

(* C1: when some declared step names an unregistered unit, the run fails   *)
(* on the name before the compute function of any unit has been started.   *)
C1_UnknownNameFailsBeforeAnyCompute ==
    UnknownStepDeclared(conf) => nStarted = 0

(* The columns the declared indicator steps produce, in declaration order. *)
DeclaredIndicatorColumns(c) ==
    Flatten([i \in 1..Len(c.indicators) |->
        IndicatorColumns(c.indicators[i].name,
                         EffectivePeriods(c.indicators[i].periods))])

(* The columns the declared cross steps produce: by step, then by order.   *)
DeclaredCrossColumns(c) ==
    LET ind == DeclaredIndicatorColumns(c)
    IN  IF ~Truthy(c.crosses) THEN <<>>
        ELSE Flatten([i \in 1..Len(c.crosses.v) |->
                Flatten([j \in 1..Len(c.crosses.v[i].orders) |->
                    CrossColumns(ind,
                        EffectiveOrder(c.crosses.v[i].orders[j], ind))])])

(* C2: whatever order the tasks end in, results are collected in           *)
(* submission order, and a symbol's calculation frame has the indicator    *)
(* columns in declaration order, then the cross columns by step and order. *)
C2_ColumnsInSubmissionOrder ==
    /\ \A n \in 1..Len(dfs) : dfs[n] = futures[n].out
    /\ \A b \in 1..Len(r_dfs) :
          r_dfs[b].cols = DeclaredIndicatorColumns(conf) \o DeclaredCrossColumns(conf)

(* A symbol's frame is complete, built from two different indicator steps  *)
(* and a cross step of two orders, after a task overtook an earlier one.   *)
C2_Witness ==
    /\ overtaken
    /\ r_dfs # <<>>
    /\ Len(conf.indicators) >= 2
    /\ conf.indicators[1] # conf.indicators[2]
    /\ Truthy(conf.crosses)
    /\ Len(conf.crosses.v[1].orders) >= 2

(* The loader and every unit have behaved so far, and every declared name  *)
(* is registered.                                                          *)
NothingWentWrong ==
    /\ ~UnknownStepDeclared(conf)
    /\ error \notin {"LoadDataError", "ComputeError"}
    /\ \A i \in 1..Len(futures) : futures[i].st # "raised"

(* The calculation table the configuration and the filtered input          *)
(* determine: one block per symbol, in order of first appearance.          *)
DeclaredCalculation ==
    LET input == FilterByTime(source, begin, end)
        syms == SymbolsOf(input)
    IN  [b \in 1..Len(syms) |->
            [symbol |-> syms[b],
             cols |-> DeclaredIndicatorColumns(conf) \o DeclaredCrossColumns(conf),
             index |-> Loc(input, syms[b])]]

(* C3: whatever the concurrency and the interleaving, a run over a         *)
(* non-empty input with at least one indicator step hands the writer the   *)
(* tables that the configuration and the input determine.                  *)
C3_SameTablesForAnyConcurrency ==
    ( /\ pc \in {"Done", "Failed"}
      /\ NothingWentWrong
      /\ conf.indicators # <<>>
      /\ source # <<>> )
    => /\ Len(writes) = 1
       /\ writes[1].calculation_df = DeclaredCalculation

(* C4 as claimed: a cross unit runs with order max(2, min(o, k)).          *)
C4_OrderIsMax2OfMin ==
    stage = "cross" =>
        \A i \in 1..Len(futures) :
            futures[i].st # "pending" =>
                futures[i].effOrder =
                    Max(2, Min(futures[i].order, Len(r_df.cols)))

(* C4 as amended: a cross unit runs with order max(2, min(o, k)) when the  *)
(* input has k >= 2 columns, and with order k when it has fewer.           *)
C4_OrderClampedToColumns ==
    stage = "cross" =>
        \A i \in 1..Len(futures) :
            futures[i].st # "pending" =>
                LET k == Len(r_df.cols)
                    o == futures[i].order
                IN  futures[i].effOrder = IF k >= 2 THEN Max(2, Min(o, k)) ELSE k

(* A cross unit runs on a one-column frame with a declared order below 2.  *)
C4_Witness ==
    /\ stage = "cross"
    /\ Len(r_df.cols) < 2
    /\ \E i \in 1..Len(futures) :
          futures[i].st = "running" /\ futures[i].order < 2

(* C5: the table that enters the calculation stage is exactly the loaded   *)
(* rows with begin <= t (if begin is given) and t < end (if end is         *)
(* given), in their loaded order.                                          *)
C5_HalfOpenInterval ==
    filterCount = 1 =>
        df = SelectSeq(source,
                LAMBDA r : /\ (begin.given => begin.t <= r.time)
                           /\ (end.given => r.time < end.t))

(* The loader or a unit's compute function has raised.                     *)
SomethingRaised ==
    \/ error = "LoadDataError"
    \/ \E i \in 1..Len(futures) : futures[i].st = "raised"

(* C6: once the loader or a unit has raised, the run can only end in       *)
(* failure: the driver stays inside the failing stage until it moves to    *)
(* Failed, no later symbol is started, no pool is opened, the failed work  *)
(* item is neither run again nor passed over, no symbol's frame is added,  *)
(* and the writer is not called.                                           *)
C6_FailureIsFatal ==
    /\ [](SomethingRaised =>
            /\ pc \in {"Calculating", "Failed"}
            /\ pc = "Calculating" => phase \in {"submit", "collect", "shutdown"}
            /\ writes = <<>>)
    /\ [][SomethingRaised =>
            /\ SomethingRaised'
            /\ pc' \in {pc, "Failed"}
            /\ symIdx' = symIdx
            /\ pools' = pools
            /\ r_dfs' = r_dfs
            /\ writes' = writes
            /\ Len(futures') >= Len(futures)
            /\ \A i \in 1..Len(futures) :
                  futures[i].st = "raised" => futures'[i] = futures[i]]_vars

(* The run has failed on a unit of the first symbol's cross stage while    *)
(* another symbol was still to come.                                       *)
C6_Witness ==
    /\ pc = "Failed"
    /\ error = "ComputeError"
    /\ stage = "cross"
    /\ symIdx < Len(SymbolsOf(df))
    /\ writes = <<>>

(* The driver's states, in order.                                          *)
DriverSteps ==
    { <<"Loading", "Filtering">>, <<"Filtering", "Calculating">>,
      <<"Calculating", "Evaluating">>, <<"Calculating", "Sinking">>,
      <<"Evaluating", "Sinking">>, <<"Sinking", "Done">> }

(* C7: the driver moves only forward through Loading, Filtering,           *)
(* Calculating, Evaluating, Sinking, Done, or to Failed; the filter runs   *)
(* once, after the load and before any unit; a state is entered only when  *)
(* the one before it has finished; Done and Failed are final.              *)
C7_DriverOrder ==
    /\ [][/\ pc' # pc =>
               \/ <<pc, pc'>> \in DriverSteps
               \/ pc' = "Failed" /\ pc \notin {"Done", "Failed"}
          /\ pc \in {"Done", "Failed"} => UNCHANGED vars]_vars
    /\ [](/\ filterCount = IF pc \in {"Loading", "Filtering"} THEN 0
                           ELSE IF pc = "Failed" THEN filterCount ELSE 1
          /\ filterCount <= 1
          /\ nStarted > 0 => filterCount = 1
          /\ pc = "Filtering" => df = source
          /\ pc \in {"Evaluating", "Sinking", "Done"} =>
                /\ Unfinished(futures) = {}
                /\ Len(r_dfs) = Len(SymbolsOf(df))
                /\ calculation_df = r_dfs)

(* A run has gone through Loading, Filtering, Calculating (with units      *)
(* executed) and Evaluating, and has ended in Failed.                      *)
C7_Witness ==
    /\ pc = "Failed"
    /\ error = "AttributeError"
    /\ filterCount = 1
    /\ nStarted > 0
    /\ calculation_df # <<>>

(* C8: a run whose names are all registered, whose input has a symbol and  *)
(* whose loader and units do not fail does not fail: it ends in Done       *)
(* after one call of the writer.                                           *)
C8_BlockingRunReachesDone ==
    pc = "Failed" =>
        \/ UnknownStepDeclared(conf)
        \/ error \in {"LoadDataError", "ComputeError"}
        \/ SymbolsOf(df) = <<>>

(* C9: while the tasks of a symbol are dispatched, the pair of every       *)
(* symbol completed before it has been produced to the caller.             *)
C9_StreamingYieldsEachSymbol ==
    (pc = "Calculating" /\ phase \in {"submit", "collect", "shutdown"})
        => Len(yielded) = Len(r_dfs)

(* C10: at most max(1, c) tasks execute at the same time, and c <= 0 runs  *)
(* with pools of one worker.                                               *)
C10_AtMostConcurrencyRunning ==
    /\ Cardinality(Running(futures)) <= Max(1, cArg)
    /\ pc # "Loading" => concurrency = Max(1, cArg)

(* With c <= 0, one task runs while another waits in the queue.            *)
C10_Witness ==
    /\ cArg <= 0
    /\ Cardinality(Running(futures)) = 1
    /\ Pending(futures) # {}

(* The row of table d at which symbol s appears first.                     *)
FirstRow(d, s) ==
    CHOOSE i \in 1..Len(d) :
        d[i].symbol = s /\ \A j \in 1..(i - 1) : d[j].symbol # s

(* The blocks are of different symbols of table d, in the order in which   *)
(* the symbols first appear in d, none passed over.                        *)
InFirstAppearanceOrder(blocks, d) ==
    /\ \A b \in 1..Len(blocks) : \E i \in 1..Len(d) : d[i].symbol = blocks[b].symbol
    /\ \A a, b \in 1..Len(blocks) :
          a < b => /\ blocks[a].symbol # blocks[b].symbol
                   /\ FirstRow(d, blocks[a].symbol) < FirstRow(d, blocks[b].symbol)
    /\ \A b \in 1..Len(blocks) : \A i \in 1..Len(d) :
          i < FirstRow(d, blocks[b].symbol) =>
              \E a \in 1..(b - 1) : blocks[a].symbol = d[i].symbol

(* C11: the combined calculation table has one block for each distinct     *)
(* symbol of the filtered input and for no other, in order of first        *)
(* appearance; the frames gathered while the loop runs are a prefix of it. *)
C11_SymbolsOfCalculationTable ==
    /\ InFirstAppearanceOrder(r_dfs, df)
    /\ calculation_df # <<>> =>
          /\ InFirstAppearanceOrder(calculation_df, df)
          /\ { calculation_df[b].symbol : b \in 1..Len(calculation_df) }
                = { df[i].symbol : i \in 1..Len(df) }

(* The table is combined from an input filtered by a begin bound, in       *)
(* which B appears before A.                                               *)
C11_Witness ==
    /\ begin.given
    /\ Len(calculation_df) = 2
    /\ calculation_df[1].symbol = "B"
    /\ calculation_df[2].symbol = "A"

(* No two work items of a stage have the same name and arguments.          *)
DifferentlyParameterized(c) ==
    \A stg \in {"indicator", "cross"} :
        LET items == WorkItems(stg, c)
        IN  \A i, j \in 1..Len(items) : i < j => items[i] # items[j]

(* C12: when the declared steps are differently parameterized, the column  *)
(* names of every symbol's calculation frame are pairwise distinct.        *)
C12_ColumnNamesDistinct ==
    DifferentlyParameterized(conf) =>
        \A b \in 1..Len(r_dfs) :
            \A i, j \in 1..Len(r_dfs[b].cols) :
                i < j => r_dfs[b].cols[i] # r_dfs[b].cols[j]

(* Every submitted work item has returned or raised.                       *)
AllEnded(futs) == \A i \in 1..Len(futs) : futs[i].st \in {"done", "raised"}

(* The driver is inside a dispatcher, between the pool's creation and the  *)
(* end of its `with` block.                                                *)
InStage == pc = "Calculating" /\ phase \in {"submit", "collect", "shutdown"}

(* C13: a stage returns or raises to the driver only when every task it    *)
(* has submitted has finished or failed; none is cancelled or left         *)
(* running, also when another task has failed, and while a task has not    *)
(* ended the stage does not complete.                                      *)
C13_StageWaitsForEveryTask ==
    /\ [](~InStage => AllEnded(futures))
    /\ [][(InStage /\ ~InStage') => AllEnded(futures)]_vars
    /\ [][(InStage /\ pools' # pools) => AllEnded(futures)]_vars
    /\ [][(InStage /\ ~AllEnded(futures)) =>
              /\ Len(futures') >= Len(futures)
              /\ \A i \in 1..Len(futures) :
                    /\ futures[i].st = "pending" =>
                          futures'[i].st \in {"pending", "running"}
                    /\ futures[i].st = "running" =>
                          futures'[i].st \in {"running", "done", "raised"}]_vars

(* With one worker, the stage has raised the failure of its first task     *)
(* only after the task queued behind it had run to its end.                *)
C13_Witness ==
    /\ pc = "Failed"
    /\ error = "ComputeError"
    /\ concurrency = 1
    /\ Len(futures) >= 2
    /\ futures[1].st = "raised"
    /\ futures[2].st = "done"

(* C14: at most one worker pool exists at any time, and only while the     *)
(* driver is inside a dispatcher; a pool is created empty for one          *)
(* (symbol, stage) and serves no other; the cross stage of a symbol is     *)
(* entered only after every indicator task of the symbol has ended and     *)
(* the indicator pool is gone, so a cross task runs on the symbol's        *)
(* complete indicator frame.                                               *)
C14_OnePoolPerSymbolStage ==
    /\ [](/\ live = (IF InStage THEN 1 ELSE 0)
          /\ stage = "cross" =>
                /\ r_df.cols = DeclaredIndicatorColumns(conf)
                /\ \A i \in 1..Len(futures) : futures[i].name \in cross_registry
          /\ stage = "indicator" =>
                \A i \in 1..Len(futures) :
                    futures[i].name \in technical_indicator_registry)
    /\ [][(stage = "indicator" /\ stage' = "cross") =>
              /\ AllEnded(futures)
              /\ Len(futures) = Len(conf.indicators)
              /\ Len(dfs) = Len(futures)
              /\ symIdx' = symIdx]_vars
    /\ [][pools' # pools =>
              /\ pools' = pools + 1
              /\ live' = 1
              /\ futures' = <<>>
              /\ <<symIdx', stage'>> # <<symIdx, stage>>]_vars
    /\ [][(InStage /\ InStage' /\ pools' = pools) =>
              /\ symIdx' = symIdx
              /\ stage' = stage]_vars

(* A cross task of the second symbol is running in the fourth pool of the  *)
(* run.                                                                    *)
C14_Witness ==
    /\ stage = "cross"
    /\ symIdx = 2
    /\ pools = 4
    /\ live = 1
    /\ Running(futures) # {}

(* C15: every task submitted or running is a task of the symbol the loop  *)
(* is at, and while one is unfinished every earlier symbol has its         *)
(* complete frame and no later symbol has any; the loop moves to the next  *)
(* symbol, by one, only when every task of the current one has ended, and  *)
(* then no task is left.                                                   *)
C15_SymbolsOneAfterAnother ==
    /\ [](\A i \in 1..Len(futures) :
            /\ futures[i].symbol = SymbolsOf(df)[symIdx]
            /\ futures[i].st \in {"pending", "running"} =>
                  /\ Len(r_dfs) = symIdx - 1
                  /\ \A b \in 1..Len(r_dfs) :
                        /\ r_dfs[b].symbol = SymbolsOf(df)[b]
                        /\ r_dfs[b].symbol # futures[i].symbol)
    /\ [][symIdx' # symIdx =>
              /\ symIdx' = symIdx + 1
              /\ AllEnded(futures)
              /\ futures' = <<>>]_vars

(* With two workers, two tasks of the second symbol run at the same time   *)
(* after the first symbol's frame was completed.                           *)
C15_Witness ==
    /\ symIdx = 2
    /\ Len(r_dfs) = 1
    /\ Cardinality(Running(futures)) = 2
    /\ \A i \in Running(futures) : futures[i].symbol = "B"

(* The submit() calls the declared steps call for, over table d: for each  *)
(* symbol its indicator steps and then its (cross step, order) pairs, in   *)
(* declaration order, and after the last symbol the evaluator steps of     *)
(* each symbol.                                                            *)
DeclaredSubmissions(c, d) ==
    LET syms == SymbolsOf(d)
        Of(sym, stg, items) ==
            [i \in 1..Len(items) |-> Submission(sym, stg, items[i])]
        Calc(sym) ==
            Of(sym, "indicator", WorkItems("indicator", c))
            \o (IF Truthy(c.crosses)
                THEN Of(sym, "cross", WorkItems("cross", c)) ELSE <<>>)
        Eval(sym) ==
            [i \in 1..Len(c.evaluators) |->
                [symbol |-> sym, stage |-> "evaluator",
                 name |-> c.evaluators[i].name, order |-> 0]]
    IN  Flatten([b \in 1..Len(syms) |-> Calc(syms[b])])
        \o Flatten([b \in 1..Len(syms) |-> Eval(syms[b])])

(* Every declared step names a unit of its registry.                       *)
OnlyRegisteredNames(c) ==
    /\ ~UnknownStepDeclared(c)
    /\ \A i \in 1..Len(c.evaluators) : c.evaluators[i].name \in evaluator_registry

(* C16: with registered names only, the tasks submitted so far are the     *)
(* first of the declared ones, in declaration order, none dropped and none *)
(* twice; a run with at least one indicator step in which neither the      *)
(* loader nor a unit fails has submitted all of them when it ends.         *)
C16_OneTaskPerDeclaredStep ==
    OnlyRegisteredNames(conf) =>
        LET declared == DeclaredSubmissions(conf, df)
        IN  /\ Len(submitted) <= Len(declared)
            /\ \A n \in 1..Len(submitted) : submitted[n] = declared[n]
            /\ ( /\ pc \in {"Done", "Failed"}
                  /\ NothingWentWrong
                  /\ conf.indicators # <<>> )
               => submitted = declared

(* The stage in which a failed run has failed.                             *)
StageOfFailure ==
    IF error = "LoadDataError" THEN "load"
    ELSE IF stage = "cross" THEN "cross"
    ELSE IF error = "AttributeError" THEN "evaluate"
    ELSE "calculate"

(* C17: the error of a failed run identifies the stage in which it arose   *)
(* and, when a unit's compute function raised, the symbol and a step that  *)
(* raised, and wraps the unit's exception.                                 *)
C17_ErrorsNameStageSymbolStep ==
    pc = "Failed" =>
        /\ ErrorContext(error).stage = StageOfFailure
        /\ error = "ComputeError" =>
              /\ ErrorContext(error).symbol = CurrentSymbol
              /\ \E i \in 1..Len(futures) :
                    /\ futures[i].st = "raised"
                    /\ ErrorContext(error).step = futures[i].name
              /\ ErrorContext(error).cause # "none"

(* The unit the first n registrations leave under a name of a kind: that   *)
(* of the latest of them, or none.                                         *)
LastRegistered(kind, name, n) ==
    LET under == { i \in 1..n : /\ registrations[i].kind = kind
                                /\ registrations[i].name = name }
    IN  IF under = {} THEN "KeyError"
        ELSE registrations[CHOOSE i \in under : \A j \in under : j <= i].func

C19_RowsAndTimeIndexKept ==
    /\ \A i \in 1..Len(futures) :
          futures[i].st = "done" =>
              futures[i].out.index = Loc(df, futures[i].symbol)
    /\ \A n \in 1..Len(dfs) : dfs[n].index = StageInput.index
    /\ stage = "cross" => r_df.index = Loc(df, CurrentSymbol)
    /\ \A b \in 1..Len(r_dfs) : r_dfs[b].index = Loc(df, r_dfs[b].symbol)

(* Of two loaded rows of one symbol the filter has kept one, and the       *)
(* symbol's frame, cross columns included, has that one row.               *)
C19_Witness ==
    /\ Len(source) = 2
    /\ source[1].symbol = source[2].symbol
    /\ Len(r_dfs) = 1
    /\ Len(r_dfs[1].index) = 1
    /\ Len(r_dfs[1].cols) > Len(DeclaredIndicatorColumns(conf))

(* The evaluator tasks submitted so far, in order.                         *)
EvaluatorSubmissions == SelectSeq(submitted, LAMBDA x : x.stage = "evaluator")

(* C20: evaluator tasks are submitted only after every symbol has its      *)
(* calculation frame; a run over a non-empty input in which nothing goes   *)
(* wrong ends after one call of the writer, having submitted the declared  *)
(* evaluator steps once per symbol, in processing order, and the           *)
(* evaluation table has one block per symbol in that order: with no        *)
(* declared evaluator step, no task and an empty table.                    *)
C20_EvaluatorStageOptional ==
    /\ EvaluatorSubmissions # <<>> =>
          /\ Len(r_dfs) = Len(SymbolsOf(df))
          /\ calculation_df = r_dfs
    /\ ( /\ pc \in {"Done", "Failed"}
          /\ NothingWentWrong
          /\ conf.indicators # <<>>
          /\ SymbolsOf(df) # <<>> )
       => LET syms == IF conf.evaluators = <<>> THEN <<>> ELSE SymbolsOf(df)
          IN  /\ EvaluatorSubmissions =
                    Flatten([b \in 1..Len(syms) |->
                        [i \in 1..Len(conf.evaluators) |->
                            [symbol |-> syms[b], stage |-> "evaluator",
                             name |-> conf.evaluators[i].name, order |-> 0]]])
              /\ pc = "Done"
              /\ Len(writes) = 1
              /\ Len(writes[1].evaluation_df) = Len(syms)
              /\ \A b \in 1..Len(syms) :
                    writes[1].evaluation_df[b].symbol = syms[b]

ClaimedStageInput ==
    IF stage = "indicator"
    THEN [cols |-> <<"open", "high", "low", "close", "volume">>,
          index |-> Loc(df, SymbolsOf(df)[symIdx])]
    ELSE r_df

(* C22: every task of a stage holds the same stage input, whatever the     *)
(* other tasks have done, and the output of a finished task is given by    *)
(* its own arguments and that input alone; inside a stage a step changes   *)
(* at most one task, and neither the stage's input, nor the registries,    *)
(* nor the result of a task that has ended.                                *)
C22_TasksShareNothing ==
    /\ [](\A i \in 1..Len(futures) :
            /\ futures[i].input = ClaimedStageInput
            /\ futures[i].st = "done" =>
                  futures[i].out =
                      [cols  |-> IF stage = "indicator"
                                 THEN IndicatorColumns(futures[i].name,
                                                       futures[i].effPeriods)
                                 ELSE CrossColumns(ClaimedStageInput.cols,
                                                   futures[i].effOrder),
                       index |-> ClaimedStageInput.index])
    /\ [][(InStage /\ InStage' /\ pools' = pools) =>
              /\ df' = df
              /\ r_df' = r_df
              /\ registries' = registries
              /\ \A i \in 1..Len(futures) :
                    futures[i].st \in {"done", "raised"} =>
                        futures'[i] = futures[i]
              /\ \A i, k \in 1..Len(futures) :
                    (futures'[i] # futures[i] /\ futures'[k] # futures[k])
                        => i = k]_vars

(* Of two cross tasks submitted with the same indicator frame, the second  *)
(* has finished while the first is still running.                          *)
C22_Witness ==
    /\ stage = "cross"
    /\ Len(futures) = 2
    /\ futures[1].st = "running"
    /\ futures[2].st = "done"
    /\ futures[1].input = r_df
    /\ futures[2].input = r_df
    /\ Len(r_df.cols) >= 2

(* The work items whose compute function has raised.                       *)
Raised(futs) == { i \in 1..Len(futs) : futs[i].st = "raised" }

(* C23: when two or more tasks of a stage have failed and the stage has    *)
(* raised, the error is the one re-raised from the earliest submitted of   *)
(* the failed tasks: every result before it was read, and none after it.   *)
C23_EarliestFailureIsRaised ==
    (pc = "Failed" /\ Cardinality(Raised(futures)) >= 2) =>
        LET first == CHOOSE i \in Raised(futures) :
                         \A j \in Raised(futures) : i <= j
        IN  /\ error = "ComputeError"
            /\ Len(dfs) = first - 1
            /\ \A n \in 1..Len(dfs) : dfs[n] = futures[n].out

(* The calculation stage has nothing to concatenate: the filter has left   *)
(* no row, or the configuration declares no indicator step.                *)
NothingToConcatenate ==
    \/ filterCount = 1 /\ df = <<>>
    \/ conf.indicators = <<>>

(* C24: when the time-range filter leaves no rows, or no indicator step    *)
(* is declared, the run never gets a calculation table (not even an empty  *)
(* one), never reaches the evaluation or the writer, and leaves the        *)
(* calculation stage only by raising: ValueError once the data were        *)
(* loaded.                                                                 *)
C24_NothingToConcatenateRaises ==
    /\ [](NothingToConcatenate =>
            /\ pc \notin {"Evaluating", "Done"}
            /\ calculation_df = <<>>
            /\ writes = <<>>
            /\ (pc = "Failed" /\ filterCount = 1) => error = "ValueError")
    /\ [][(NothingToConcatenate /\ pc = "Calculating" /\ pc' # "Calculating")
              => (pc' = "Failed" /\ error' = "ValueError")]_vars

(* A loaded table with rows, all of them outside the time range: the run   *)
(* has raised ValueError from the concatenation of no symbol's frame, and  *)
(* the writer has not been called.                                         *)
C24_Witness ==
    /\ source # <<>>
    /\ conf.indicators # <<>>
    /\ filterCount = 1
    /\ df = <<>>
    /\ pools = 0
    /\ pc = "Failed"
    /\ error = "ValueError"
    /\ writes = <<>>

====
